---------------------------- MODULE Spec2Model ----------------------------
(***************************************************************************)
(* A model of pysitemaps (src/pysitemaps/__init__.py): the discovery of a  *)
(* site's sitemap (search_sitemap), the Sitemap aggregate with its root    *)
(* XmlDocument and its sub-sitemaps (append, write), the construction of   *)
(* Url and XmlDocument objects, and the rendering and extraction of the    *)
(* XML text (write_sub_sitemap, extract_url_set).                          *)
(*                                                                         *)
(* Python strings are sequences of one-character strings, so that          *)
(* str.endswith, str.split and the XML escaping are computed, not assumed. *)
(***************************************************************************)
EXTENDS Integers, Sequences, FiniteSets, TLC

VARIABLES
    \* ---- search_sitemap (one call, one step per fetch)
    pc,             \* "idle", "probe", "robots", "home", "done", "raised"
    siteUrl,        \* the url argument of search_sitemap
    idx,            \* index into SITEMAP_SEARCH_PATHS of the next probe
    response,       \* the last value returned by get_remote_content
    fetchLog,       \* the urls handed to get_remote_content, in call order
    passedOver,     \* resolved url of the last probe answered with status < 400 but no ".xml"
    result,         \* the list search_sitemap returns (NoResult while it runs)
    \* ---- write_sub_sitemap and extract_url_set, as functions of their arguments
    xmlPc,          \* "off", "entries", "text", "extracted", "raised"
    xmlUrlSet,      \* the url_set handed to write_sub_sitemap
    xmlText,        \* the text written by write_sub_sitemap, or handed to extract_url_set
    extracted,      \* the arguments of the Url objects extract_url_set returned
    \* ---- a Sitemap object and what surrounds it
    today,          \* the current date, in days since the module was loaded
    default_lastmod,\* the lastmod default of Url, XmlDocument and add_url, set when the module is loaded
    heap,           \* the image lists: a Url holds the place of its list here
    file_path,      \* self.file_path
    xsl_file,       \* self.xsl_file
    parent,         \* self.content["parent"]
    sub_sitemaps,   \* self.content["sub_sitemaps"]
    call,           \* the call that ran last, with its arguments
    writes,         \* the files the call that ran last opened and wrote, in order
    writeRaised     \* whether the call that ran last ended in an I/O error

searchVars == <<pc, siteUrl, idx, response, fetchLog, passedOver, result>>

xmlVars == <<xmlPc, xmlUrlSet, xmlText, extracted>>

sitemapVars == <<today, default_lastmod, heap, file_path, xsl_file, parent,
                 sub_sitemaps, call, writes, writeRaised>>

vars == <<pc, siteUrl, idx, response, fetchLog, passedOver, result,
          xmlPc, xmlUrlSet, xmlText, extracted,
          today, default_lastmod, heap, file_path, xsl_file, parent,
          sub_sitemaps, call, writes, writeRaised>>

-----------------------------------------------------------------------------
(* Strings *)

Str_xml == <<"x","m","l">>
Str_dot_xml == <<".","x","m","l">>
Str_slash == "/"
Str_newline == "\n"
Str_Sitemap_colon == <<"S","i","t","e","m","a","p",":">>
Str_robots_txt == <<"r","o","b","o","t","s",".","t","x","t">>
EmptyStr == << >>

\* str.endswith
EndsWith(s, suffix) ==
    /\ Len(s) >= Len(suffix)
    /\ SubSeq(s, Len(s) - Len(suffix) + 1, Len(s)) = suffix

\* str.startswith
StartsWith(s, prefix) ==
    /\ Len(s) >= Len(prefix)
    /\ SubSeq(s, 1, Len(prefix)) = prefix

\* s.split(sep) for a one-character sep: the list of the pieces
RECURSIVE SplitChar(_, _)
SplitChar(s, sep) ==
    IF \A i \in 1..Len(s) : s[i] # sep
    THEN <<s>>
    ELSE LET i == CHOOSE k \in 1..Len(s) :
                    s[k] = sep /\ \A j \in 1..(k - 1) : s[j] # sep
         IN  <<SubSeq(s, 1, i - 1)>> \o SplitChar(SubSeq(s, i + 1, Len(s)), sep)

\* s.split(pattern)[-1]: what follows the last occurrence of pattern (s itself if none)
AfterLast(s, pattern) ==
    LET starts == {i \in 1..(Len(s) - Len(pattern) + 1) :
                       SubSeq(s, i, i + Len(pattern) - 1) = pattern}
    IN  IF starts = {} THEN s
        ELSE LET i == CHOOSE k \in starts : \A j \in starts : j <= k
             IN  SubSeq(s, i + Len(pattern), Len(s))

Whitespace == {" ", "\t", "\n", "\r"}

\* str.strip()
Strip(s) ==
    LET keep == {i \in 1..Len(s) : s[i] \notin Whitespace}
    IN  IF keep = {} THEN EmptyStr
        ELSE LET lo == CHOOSE k \in keep : \A j \in keep : k <= j
                 hi == CHOOSE k \in keep : \A j \in keep : j <= k
             IN  SubSeq(s, lo, hi)

\* the elements of a sequence, as a set
Range(q) == {q[i] : i \in 1..Len(q)}

\* list(set(items)): the distinct items, in an order the hashing decides
ListOfSet(items) ==
    LET S == Range(items)
    IN  {q \in [1..Cardinality(S) -> S] : Range(q) = S}

-----------------------------------------------------------------------------
(* Constants of the program *)

SITEMAP_SEARCH_PATHS ==
  << <<"w","p","-","s","i","t","e","m","a","p",".","x","m","l">>,
     <<"s","i","t","e","m","a","p","_","i","n","d","e","x",".","x","m","l">>,
     <<"s","i","t","e","m","a","p",".","x","m","l">>,
     <<"s","i","t","e","m","a","p","i","n","d","e","x",".","x","m","l">>,
     <<"s","i","t","e","m","a","p","-","i","n","d","e","x",".","x","m","l">>,
     <<"s","i","t","e","m","a","p","1",".","x","m","l">>,
     <<"s","i","t","e","m","a","p",".","p","h","p">>,
     <<"s","i","t","e","m","a","p","/">>,
     <<"s","i","t","e","m","a","s","/">>,
     <<"s","i","t","e","m","a","s",".","x","m","l">>,
     <<"s","i","t","e","m","a","p",".","t","x","t">>,
     <<"s","i","t","e","m","a","p",".","x","m","l",".","g","z">>,
     <<"p","o","s","t","-","s","i","t","e","m","a","p",".","x","m","l">>,
     <<"p","a","g","e","-","s","i","t","e","m","a","p",".","x","m","l">>,
     <<"n","e","w","s","-","s","i","t","e","m","a","p",".","x","m","l">> >>

\* the status code of the response that stands for a failed fetch
MockStatusCode == 9999

\* response.status_code < 400
ErrorStatusFloor == 400

-----------------------------------------------------------------------------
(* The fetch collaborator *)

\* mock_requests_object(url): what get_remote_content returns when the fetch raised
mock_requests_object(url) ==
    [kind |-> "Mock", status_code |-> MockStatusCode, url |-> url,
     text |-> EmptyStr, links |-> << >>]

\* The status codes a server answers with
StatusCodes == {200, 404}

\* get_remote_content(url): every value the call can return. A server's answer
\* carries the final address (requests follows redirects), a body, and, for the
\* parse collaborator, the body's <link> elements.
get_remote_content(url, finalUrls, bodies, linkLists) ==
    {mock_requests_object(url)} \cup
    [kind : {"Response"}, status_code : StatusCodes, url : finalUrls,
     text : bodies, links : linkLists]

\* bool(response) as "if response:" evaluates it: requests.Response is true when
\* its status is below 400; the Mock that stands for a failed fetch defines no
\* truth value of its own, and an object without one is true.
Truthy(r) ==
    IF r.kind = "Mock" THEN TRUE ELSE r.status_code < ErrorStatusFloor

-----------------------------------------------------------------------------
(* search_sitemap *)

NoResult == <<"<running>">>
NoUrl == <<"<none>">>
NoResponse == [kind |-> "None", status_code |-> 0, url |-> EmptyStr,
               text |-> EmptyStr, links |-> << >>]

\* the url arguments tried
BaseUrls == { <<"h","/">>, <<"g",".","o","/">> }

\* where a server may redirect a request
RedirectTargets(url) == {url, url \o <<"i",".","x","m","l">>}

\* bodies of robots.txt
RobotsBodies ==
    { EmptyStr,
      <<"U","\n","D">>,
      <<"S","i","t","e","m","a","p",":"," ","a",".","x","m","l","\r","\n","U">>,
      <<"S","i","t","e","m","a","p",":","a",".","x","m","l","\n",
        "S","i","t","e","m","a","p",":"," ","a",".","x","m","l">>,
      <<"S","i","t","e","m","a","p",":"," ","a",".","x","m","l","\n",
        "S","i","t","e","m","a","p",":"," ","b",".","g","z">> }

NoHref == <<"<no href>">>

\* the <link> elements of a homepage: whether each has a sitemap attribute, and its href
HomeLinkLists ==
    { << >>,
      << [sitemap |-> FALSE, href |-> <<"c",".","c","s","s">>] >>,
      << [sitemap |-> TRUE, href |-> <<"a",".","x","m","l">>],
         [sitemap |-> FALSE, href |-> NoHref] >>,
      << [sitemap |-> TRUE, href |-> NoHref] >> }

\* ProbeHit without the test of the resolved address
ProbeHitAnyAddress(r) ==
    r.status_code < ErrorStatusFloor

\* line 209-210: the probe's answer ends the search
ProbeHit(r) ==
    /\ r.status_code < ErrorStatusFloor
    /\ EndsWith(r.url, Str_dot_xml)

\* lines 219-223: the addresses of the lines of robots.txt that start with "Sitemap:"
RobotsSitemaps(text) ==
    LET lines == SplitChar(text, Str_newline)
    IN  [i \in 1..Len(SelectSeq(lines, LAMBDA item : StartsWith(item, Str_Sitemap_colon)))
            |-> Strip(AfterLast(
                    SelectSeq(lines, LAMBDA item : StartsWith(item, Str_Sitemap_colon))[i],
                    Str_Sitemap_colon))]

\* lines 233-237: the hrefs of the <link> elements that have a sitemap attribute
HomeSitemaps(links) ==
    LET chosen == SelectSeq(links, LAMBDA link : link.sitemap)
    IN  [i \in 1..Len(chosen) |-> chosen[i].href]

\* search_sitemap(url) is called
SearchCall ==
    /\ pc = "idle"
    /\ \E url \in BaseUrls : siteUrl' = url
    /\ pc' = "probe"
    /\ idx' = 1
    /\ fetchLog' = << >>
    /\ UNCHANGED <<response, passedOver, result>>
    /\ UNCHANGED <<xmlVars, sitemapVars>>

\* one turn of the loop of lines 206-211
ProbeStep ==
    /\ pc = "probe"
    /\ LET sitemap_url == siteUrl \o SITEMAP_SEARCH_PATHS[idx]
       IN  /\ fetchLog' = Append(fetchLog, sitemap_url)
           /\ \E r \in get_remote_content(sitemap_url,
                          {sitemap_url} \cup RedirectTargets(siteUrl),
                          {EmptyStr}, {<< >>}) :
                /\ response' = r
                /\ IF ProbeHit(r)
                   THEN /\ result' = <<r.url>>
                        /\ pc' = "done"
                        /\ UNCHANGED <<idx, passedOver>>
                   ELSE /\ passedOver' = IF r.status_code < ErrorStatusFloor
                                         THEN r.url ELSE passedOver
                        /\ IF idx < Len(SITEMAP_SEARCH_PATHS)
                           THEN idx' = idx + 1 /\ pc' = "probe"
                           ELSE idx' = idx /\ pc' = "robots"
                        /\ UNCHANGED result
    /\ UNCHANGED siteUrl
    /\ UNCHANGED <<xmlVars, sitemapVars>>

\* lines 214-225: robots.txt
RobotsStep ==
    /\ pc = "robots"
    /\ LET robots_txt == siteUrl \o Str_robots_txt
       IN  /\ fetchLog' = Append(fetchLog, robots_txt)
           /\ \E r \in get_remote_content(robots_txt, {robots_txt},
                                          RobotsBodies, {<< >>}) :
                /\ response' = r
                /\ IF Truthy(r)
                   THEN /\ result' \in ListOfSet(RobotsSitemaps(r.text))
                        /\ pc' = "done"
                   ELSE /\ pc' = "home"
                        /\ UNCHANGED result
    /\ UNCHANGED <<siteUrl, idx, passedOver>>
    /\ UNCHANGED <<xmlVars, sitemapVars>>

\* lines 228-240: the homepage
HomeStep ==
    /\ pc = "home"
    /\ fetchLog' = Append(fetchLog, siteUrl)
    /\ \E r \in get_remote_content(siteUrl, {siteUrl},
                                   {<<"<","h",">">>}, HomeLinkLists) :
         /\ response' = r
         /\ IF Truthy(r)
            THEN IF \E i \in 1..Len(r.links) :
                        r.links[i].sitemap /\ r.links[i].href = NoHref
                 THEN \* link["href"] raises KeyError
                      pc' = "raised" /\ UNCHANGED result
                 ELSE /\ result' \in ListOfSet(HomeSitemaps(r.links))
                      /\ pc' = "done"
            ELSE /\ result' = << >>
                 /\ pc' = "done"
    /\ UNCHANGED <<siteUrl, idx, passedOver>>
    /\ UNCHANGED <<xmlVars, sitemapVars>>

SearchIdle ==
    /\ pc = "off"
    /\ siteUrl = EmptyStr
    /\ idx = 1
    /\ response = NoResponse
    /\ fetchLog = << >>
    /\ passedOver = NoUrl
    /\ result = NoResult

SearchInit ==
    /\ pc = "idle"
    /\ siteUrl = EmptyStr
    /\ idx = 1
    /\ response = NoResponse
    /\ fetchLog = << >>
    /\ passedOver = NoUrl
    /\ result = NoResult

SearchNext ==
    \/ SearchCall
    \/ ProbeStep
    \/ RobotsStep
    \/ HomeStep

-----------------------------------------------------------------------------
(* The XML text: what minidom writes and what the parse collaborator reads.  *)
(* A text is the sequence of its tokens in document order; the character     *)
(* data of a text token is held as written, that is escaped.                 *)

XSL_ATTR_LIST ==
    [n \in {"xmlns", "xmlns:xsi", "xmlns:image"} |->
        CASE n = "xmlns" -> "http://www.sitemaps.org/schemas/sitemap/0.9"
          [] n = "xmlns:xsi" -> "http://www.w3.org/2001/XMLSchema-instance"
          [] n = "xmlns:image" -> "http://www.google.com/schemas/sitemap-image/1.1"]

Open(name) == [t |-> "open", name |-> name, data |-> << >>]
OpenWith(name, attrs) == [t |-> "open", name |-> name, data |-> attrs]
Close(name) == [t |-> "close", name |-> name, data |-> << >>]
Comment(data) == [t |-> "comment", name |-> "", data |-> data]
Instruction(name, data) == [t |-> "pi", name |-> name, data |-> data]

\* what the writer puts out for one character of a text node
EscapeChar(c) ==
    CASE c = "&" -> <<"&","a","m","p",";">>
      [] c = "<" -> <<"&","l","t",";">>
      [] c = "\"" -> <<"&","q","u","o","t",";">>
      [] c = ">" -> <<"&","g","t",";">>
      [] OTHER -> <<c>>

\* the character data of a text node, as written
RECURSIVE Escape(_)
Escape(s) ==
    IF s = << >> THEN << >> ELSE EscapeChar(Head(s)) \o Escape(Tail(s))

Entities ==
    { [ref |-> <<"&","a","m","p",";">>, char |-> "&"],
      [ref |-> <<"&","l","t",";">>, char |-> "<"],
      [ref |-> <<"&","q","u","o","t",";">>, char |-> "\""],
      [ref |-> <<"&","g","t",";">>, char |-> ">"] }

\* the character data of a text node, as the parser hands it out
RECURSIVE Unescape(_)
Unescape(s) ==
    IF s = << >> THEN << >>
    ELSE IF \E e \in Entities : StartsWith(s, e.ref)
         THEN LET e == CHOOSE x \in Entities : StartsWith(s, x.ref)
              IN  <<e.char>> \o Unescape(SubSeq(s, Len(e.ref) + 1, Len(s)))
         ELSE <<Head(s)>> \o Unescape(Tail(s))

\* createElement(name) holding one createTextNode(text): an empty text writes nothing
TextElement(name, text) ==
    <<Open(name)>>
    \o (IF text = << >> THEN << >>
        ELSE <<[t |-> "text", name |-> "", data |-> Escape(text)]>>)
    \o <<Close(name)>>

\* concatenation of a sequence of sequences
RECURSIVE Flatten(_)
Flatten(qs) == IF qs = << >> THEN << >> ELSE Head(qs) \o Flatten(Tail(qs))

\* lines 259-262 and 316-319: the leading comment
HeadComment(website_name, file_name) ==
    Comment(<<"sitemap avialble at ">> \o website_name \o file_name \o <<" ">>)

\* lines 264-268 and 321-325: the stylesheet instruction goes before the comment
Prolog(website_name, xsl, file_name) ==
    (IF xsl # << >>
     THEN <<Instruction("xml-stylesheet",
                        <<"type=\"text/xsl\" href=\"">> \o xsl \o <<"\"">>)>>
     ELSE << >>)
    \o <<HeadComment(website_name, file_name)>>

\* lines 347-354: one <image:image> of a <url>
ImageNode(image_location) ==
    <<Open("image:image")>> \o TextElement("image:loc", image_location)
    \o <<Close("image:image")>>

\* UrlNode leaving out a <lastmod> that would be empty
UrlNodeSkippingEmptyLastmod(current_url) ==
    <<Open("url")>>
    \o TextElement("loc", current_url.loc)
    \o (IF current_url.lastmod = << >> THEN << >>
        ELSE TextElement("lastmod", current_url.lastmod))
    \o Flatten([i \in 1..Len(current_url.images) |-> ImageNode(current_url.images[i])])
    \o <<Close("url")>>

\* lines 335-356: one <url> with its <loc>, its <lastmod> and its images
UrlNode(current_url) ==
    <<Open("url")>>
    \o TextElement("loc", current_url.loc)
    \o TextElement("lastmod", current_url.lastmod)
    \o Flatten([i \in 1..Len(current_url.images) |-> ImageNode(current_url.images[i])])
    \o <<Close("url")>>

\* write_sub_sitemap: the text written to path + file_name
write_sub_sitemap(url_set, website_name, xsl, file_name) ==
    Prolog(website_name, xsl, file_name)
    \o <<OpenWith("urlset",
                  [i \in 1..3 |-> XSL_ATTR_LIST[<<"xmlns:xsi", "xmlns:image", "xmlns">>[i]]])>>
    \o Flatten([i \in 1..Len(url_set) |-> UrlNode(url_set[i])])
    \o <<Close("urlset")>>
    \o <<Comment(<<"XML Sitemap generated by pysitemaps">>)>>

\* lines 278-290: one <sitemap> of an index
SitemapNode(current_url) ==
    <<Open("sitemap")>>
    \o TextElement("loc", current_url.loc)
    \o TextElement("lastmod", current_url.lastmod)
    \o <<Close("sitemap")>>

\* write_index_sitemap: the text written to path + file_name
write_index_sitemap(sub_sitemaps_set, website_name, xsl, file_name) ==
    Prolog(website_name, xsl, file_name)
    \o <<OpenWith("sitemapindex", <<XSL_ATTR_LIST["xmlns"]>>)>>
    \o Flatten([i \in 1..Len(sub_sitemaps_set) |-> SitemapNode(sub_sitemaps_set[i])])
    \o <<Close("sitemapindex")>>
    \o <<Comment(<<"XML Index Sitemap generated by pysitemaps">>)>>

(* The parse collaborator's queries, on the token sequence *)

\* the place of the end tag of the element that starts at i
MatchingClose(text, i) ==
    LET depth(k) == Cardinality({j \in i..k : text[j].t = "open"})
                    - Cardinality({j \in i..k : text[j].t = "close"})
        ends == {k \in i..Len(text) : depth(k) = 0}
    IN  IF ends = {} THEN Len(text) + 1
        ELSE CHOOSE k \in ends : \A j \in ends : k <= j

\* sorted list of the members of a set of places
RECURSIVE SortedSeq(_)
SortedSeq(S) ==
    IF S = {} THEN << >>
    ELSE LET m == CHOOSE k \in S : \A j \in S : k <= j
         IN  <<m>> \o SortedSeq(S \ {m})

\* soup.find_all(name): the elements of that name, in document order
FindAll(text, name) ==
    SortedSeq({k \in 1..Len(text) : text[k].t = "open" /\ text[k].name = name})

\* element.find_all(name): its descendants of that name, in document order
FindAllIn(text, i, name) ==
    SortedSeq({k \in (i + 1)..(MatchingClose(text, i) - 1) :
                   text[k].t = "open" /\ text[k].name = name})

\* element.findNext(name): the first element of that name that starts after
\* the start of this one, inside it or not; 0 when there is none
FindNext(text, i, name) ==
    LET later == {k \in (i + 1)..Len(text) : text[k].t = "open" /\ text[k].name = name}
    IN  IF later = {} THEN 0 ELSE CHOOSE k \in later : \A j \in later : k <= j

\* element.text: the character data inside the element
TextOf(text, i) ==
    LET inside == SortedSeq({k \in (i + 1)..(MatchingClose(text, i) - 1) :
                                 text[k].t = "text"})
    IN  Flatten([n \in 1..Len(inside) |-> Unescape(text[inside[n]].data)])

\* line 149: img_loc.findNext("image:loc").text raises when findNext returns None
ExtractRaises(text) ==
    \E u \in Range(FindAll(text, "url")) :
        \E img \in Range(FindAllIn(text, u, "image:image")) :
            FindNext(text, img, "image:loc") = 0

\* lines 146-151: the arguments of the Url made for the <url> that starts at url
ExtractUrl(text, url) ==
    LET images == FindAllIn(text, url, "image:image")
    IN  [loc |-> IF FindNext(text, url, "loc") # 0
                 THEN TextOf(text, FindNext(text, url, "loc")) ELSE EmptyStr,
         lastmod |-> IF FindNext(text, url, "lastmod") # 0
                     THEN TextOf(text, FindNext(text, url, "lastmod")) ELSE EmptyStr,
         images |-> [n \in 1..Len(images) |->
                        TextOf(text, FindNext(text, images[n], "image:loc"))]]

\* extract_url_set: one Url per <url> element
extract_url_set(xml_as_text) ==
    LET urls == FindAll(xml_as_text, "url")
    IN  [n \in 1..Len(urls) |-> ExtractUrl(xml_as_text, urls[n])]

-----------------------------------------------------------------------------
(* write_sub_sitemap and extract_url_set applied to bounded arguments *)

\* the longest url_set written, and the most <url> elements of a text read
MaxUrls == 2

Absent == <<"<absent>">>

\* the url_set arguments: Url.as_dict() of each Url
UrlDicts ==
    [loc : {EmptyStr, <<"a">>, <<"b","&","c">>},
     lastmod : {EmptyStr, <<"2","0","2","2">>},
     images : {<< >>, << <<"i">> >>, << <<"<","\"",">">>, <<"i">> >>}]

\* the sequences of 1..n members of S
SeqsUpTo(S, n) == UNION {[1..k -> S] : k \in 1..n}

\* the <url> elements of the texts read: each child is there or not
UrlShapes ==
    [loc : {Absent, <<"a">>, <<"b">>},
     lastmod : {Absent, <<"1">>},
     images : {<< >>, << <<"i">> >>, << Absent >>}]

OptionalElement(name, text) ==
    IF text = Absent THEN << >> ELSE TextElement(name, text)

ShapeNode(shape) ==
    <<Open("url")>>
    \o OptionalElement("loc", shape.loc)
    \o OptionalElement("lastmod", shape.lastmod)
    \o Flatten([i \in 1..Len(shape.images) |->
                   <<Open("image:image")>>
                   \o OptionalElement("image:loc", shape.images[i])
                   \o <<Close("image:image")>>])
    \o <<Close("url")>>

\* a text handed to extract_url_set: a <urlset> of the given <url> elements
ShapeText(shapes) ==
    <<Open("urlset")>>
    \o Flatten([i \in 1..Len(shapes) |-> ShapeNode(shapes[i])])
    \o <<Close("urlset")>>

XmlWebsiteName == <<"h","/">>
XmlFileName == <<"s",".","x","m","l">>
XmlStylesheets == {EmptyStr, <<"m",".","x","s","l">>}

XmlIdle ==
    /\ xmlPc = "off"
    /\ xmlUrlSet = << >>
    /\ xmlText = << >>
    /\ extracted = << >>

XmlInit ==
    /\ extracted = << >>
    /\ \/ /\ xmlPc = "entries"
          /\ xmlUrlSet \in SeqsUpTo(UrlDicts, MaxUrls)
          /\ xmlText = << >>
       \/ /\ xmlPc = "text"
          /\ xmlUrlSet = << >>
          /\ xmlText \in {ShapeText(shapes) :
                              shapes \in {<< >>} \cup SeqsUpTo(UrlShapes, MaxUrls)}

\* write_sub_sitemap(url_set, ...) writes the file
XmlWrite ==
    /\ xmlPc = "entries"
    /\ \E xsl \in XmlStylesheets :
         xmlText' = write_sub_sitemap(xmlUrlSet, XmlWebsiteName, xsl, XmlFileName)
    /\ xmlPc' = "written"
    /\ UNCHANGED <<xmlUrlSet, extracted>>
    /\ UNCHANGED <<searchVars, sitemapVars>>

\* extract_url_set(text), on a text given or on the text just written
XmlExtract ==
    /\ xmlPc \in {"written", "text"}
    /\ IF ExtractRaises(xmlText)
       THEN /\ xmlPc' = "raised"
            /\ UNCHANGED extracted
       ELSE /\ extracted' = extract_url_set(xmlText)
            /\ xmlPc' = IF xmlPc = "written" THEN "roundtrip" ELSE "extracted"
    /\ UNCHANGED <<xmlUrlSet, xmlText>>
    /\ UNCHANGED <<searchVars, sitemapVars>>

XmlNext ==
    \/ XmlWrite
    \/ XmlExtract

-----------------------------------------------------------------------------
(* Url, XmlDocument and Sitemap *)

\* the most entries appended to the root, and the most sub-sitemaps appended
MaxEntries == 2
MaxChildren == 2
\* the days that pass after the module is loaded
MaxDay == 1

\* an argument the caller leaves out
Omitted == <<"<omitted>">>

\* datetime.now().strftime("%Y-%m-%d") on the given day
StrfTime(day) ==
    <<"2","0","2","3","-","0","1","-","0">>
    \o << <<"1","2","3","4","5","6","7","8","9">>[day + 1] >>

\* the places in the heap of the lists made once, when the functions are defined:
\* the images_loc defaults of Url.__init__, of Url.add_images and of XmlDocument.add_url
UrlDefaultImages == 1
AddImagesDefaultImages == 2
AddUrlDefaultImages == 3

WebsiteName == <<"h","/">>

\* the lastmod a constructor uses: the caller's, or the default made at load time
LastmodOrDefault(lastmod) ==
    IF lastmod = Omitted THEN default_lastmod ELSE lastmod

\* Url.__init__
Url_init(loc, lastmod, images_loc) ==
    [loc |-> loc, lastmod |-> lastmod, image_locations |-> images_loc]

\* Url(loc[, lastmod][, images_loc]) called with the given arguments on heap h: the
\* object, and the heap with the caller's list in it when the caller passes one
NewUrl(h, args, defaultImages) ==
    [obj |-> Url_init(args.loc, LastmodOrDefault(args.lastmod),
                      IF args.images_loc = Omitted THEN defaultImages ELSE Len(h) + 1),
     heap |-> IF args.images_loc = Omitted THEN h ELSE Append(h, args.images_loc)]

\* Url.as_dict
Url_as_dict(h, url) ==
    [loc |-> url.loc, lastmod |-> url.lastmod, images |-> h[url.image_locations]]

\* XmlDocument.__init__ with include_urls left False
XmlDocument_init(loc, lastmod) ==
    [loc |-> loc, lastmod |-> LastmodOrDefault(lastmod), urls |-> << >>]

\* add_object appending only a Url whose loc is not yet in the document
add_object_once_per_loc(doc, url_object) ==
    IF \E i \in 1..Len(doc.urls) : doc.urls[i].loc = url_object.loc
    THEN doc
    ELSE [doc EXCEPT !.urls = Append(@, url_object)]

\* XmlDocument.add_object: a Url object is true, so it is appended
add_object(doc, url_object) ==
    [doc EXCEPT !.urls = Append(@, url_object)]

\* add_url without the test of loc
add_url_any_loc(doc, h, args) ==
    LET new == NewUrl(h, args, AddUrlDefaultImages)
    IN  [doc |-> [doc EXCEPT !.urls = Append(@, new.obj)], heap |-> new.heap]

\* XmlDocument.add_url: the document and the heap after the call
add_url(doc, h, args) ==
    IF args.loc # EmptyStr
    THEN LET new == NewUrl(h, args, AddUrlDefaultImages)
         IN  [doc |-> [doc EXCEPT !.urls = Append(@, new.obj)], heap |-> new.heap]
    ELSE [doc |-> doc, heap |-> h]

\* XmlDocument.as_dict
XmlDocument_as_dict(h, doc) ==
    [loc |-> doc.loc, lastmod |-> doc.lastmod,
     urls |-> [i \in 1..Len(doc.urls) |-> Url_as_dict(h, doc.urls[i])]]

\* the caller's XmlDocument(loc[, lastmod]) followed by its add_url calls
RECURSIVE AddUrls(_, _, _)
AddUrls(doc, h, urlArgs) ==
    IF urlArgs = << >> THEN [doc |-> doc, heap |-> h]
    ELSE LET one == add_url(doc, h, Head(urlArgs))
         IN  AddUrls(one.doc, one.heap, Tail(urlArgs))

NewDocument(h, args) ==
    AddUrls(XmlDocument_init(args.loc, args.lastmod), h, args.urls)

\* s.split("/")[-1]
LastSegment(s) ==
    LET pieces == SplitChar(s, Str_slash) IN pieces[Len(pieces)]

(* The arguments the caller passes *)

UrlArgs ==
    { [loc |-> <<"a">>, lastmod |-> <<"2","0","2","2">>, images_loc |-> << <<"i">> >>],
      [loc |-> EmptyStr, lastmod |-> Omitted, images_loc |-> Omitted] }

DictArgs ==
    { [loc |-> <<"a">>, lastmod |-> <<"2","0","2","1">>,
       images_loc |-> << <<"i">>, <<"j">> >>],
      [loc |-> EmptyStr, lastmod |-> <<"2","0","2","1">>, images_loc |-> << <<"i">> >>] }

DocumentArgs ==
    { [loc |-> <<"h","/","p",".","x","m","l">>, lastmod |-> Omitted, urls |-> << >>],
      [loc |-> <<"h","/","d","/","s",".","x","m","l">>, lastmod |-> <<"2","0","2","0">>,
       urls |-> << [loc |-> <<"c">>, lastmod |-> Omitted, images_loc |-> Omitted] >>] }

OtherArgs == { <<"n","o","t"," ","a"," ","U","r","l">> }

AppendArgs(kind) ==
    CASE kind = "XmlDocument" -> DocumentArgs
      [] kind = "Url" -> UrlArgs
      [] kind = "dict" -> DictArgs
      [] kind = "other" -> OtherArgs

FilePaths == { <<"s",".","x","m","l">>, EmptyStr }
XslFiles == { EmptyStr, <<"m",".","x","s","l">> }
WritePaths == { EmptyStr, <<"o","/">> }

\* Sitemap(website_name, file_path, xsl_file) has been constructed, on the day the
\* module was loaded
SitemapInit ==
    /\ today = 0
    /\ default_lastmod = StrfTime(0)
    /\ heap = << << >>, << >>, << >> >>
    /\ file_path \in FilePaths
    /\ xsl_file \in XslFiles
    /\ parent = [loc |-> file_path, lastmod |-> default_lastmod, urls |-> << >>]
    /\ sub_sitemaps = << >>
    /\ call = [op |-> "Sitemap", kind |-> "", arg |-> file_path]
    /\ writes = << >>
    /\ writeRaised = FALSE

SitemapIdle ==
    /\ today = 0
    /\ default_lastmod = EmptyStr
    /\ heap = << >>
    /\ file_path = EmptyStr
    /\ xsl_file = EmptyStr
    /\ parent = [loc |-> EmptyStr, lastmod |-> EmptyStr, urls |-> << >>]
    /\ sub_sitemaps = << >>
    /\ call = [op |-> "off", kind |-> "", arg |-> EmptyStr]
    /\ writes = << >>
    /\ writeRaised = FALSE

\* a day passes
Tick ==
    /\ today < MaxDay
    /\ today' = today + 1
    /\ call' = [op |-> "tick", kind |-> "", arg |-> EmptyStr]
    /\ writes' = << >>
    /\ writeRaised' = FALSE
    /\ UNCHANGED <<default_lastmod, heap, file_path, xsl_file, parent, sub_sitemaps>>
    /\ UNCHANGED <<searchVars, xmlVars>>

\* Sitemap.append(object_to_append), the object made from args by the caller
Sitemap_append(kind, args) ==
    /\ kind = "XmlDocument" => Len(sub_sitemaps) < MaxChildren
    /\ kind \in {"Url", "dict"} => Len(parent.urls) < MaxEntries
    /\ CASE kind = "XmlDocument" ->
              LET new == NewDocument(heap, args)
              IN  /\ sub_sitemaps' = Append(sub_sitemaps, new.doc)
                  /\ heap' = new.heap
                  /\ UNCHANGED parent
         [] kind = "Url" ->
              LET new == NewUrl(heap, args, UrlDefaultImages)
              IN  /\ parent' = add_object(parent, new.obj)
                  /\ heap' = new.heap
                  /\ UNCHANGED sub_sitemaps
         [] kind = "dict" ->
              LET new == add_url(parent, heap, args)
              IN  /\ parent' = new.doc
                  /\ heap' = new.heap
                  /\ UNCHANGED sub_sitemaps
         [] OTHER -> UNCHANGED <<parent, heap, sub_sitemaps>>
    /\ call' = [op |-> "append", kind |-> kind, arg |-> args]
    /\ writes' = << >>
    /\ writeRaised' = FALSE
    /\ UNCHANGED <<today, default_lastmod, file_path, xsl_file>>
    /\ UNCHANGED <<searchVars, xmlVars>>

\* a call of write_sub_sitemap or write_index_sitemap (fn) from Sitemap.write, with
\* its arguments: the file path + file_name is opened and the rendering of items,
\* under self.website_name and self.xsl_file, is written to it
FileWrite(fn, path, file_name, items) ==
    [fn |-> fn, file_name |-> file_name, file |-> path \o file_name, items |-> items,
     website_name |-> WebsiteName, xsl_file |-> xsl_file]

\* SubSitemapWrites writing a leaf file for every sub-sitemap, with urls or without
SubSitemapWritesAll(path) ==
    [i \in 1..Len(sub_sitemaps) |->
        FileWrite("write_sub_sitemap", path,
                  LastSegment(XmlDocument_as_dict(heap, sub_sitemaps[i]).loc),
                  XmlDocument_as_dict(heap, sub_sitemaps[i]).urls)]

\* lines 611-621: a leaf file for each sub-sitemap that has urls
SubSitemapWrites(path) ==
    LET with_urls == SelectSeq(sub_sitemaps, LAMBDA sub_sitemap : sub_sitemap.urls # << >>)
    IN  [i \in 1..Len(with_urls) |->
            LET sitemap_name == LastSegment(XmlDocument_as_dict(heap, with_urls[i]).loc)
                url_set == XmlDocument_as_dict(heap, with_urls[i]).urls
            IN  FileWrite("write_sub_sitemap", path, sitemap_name, url_set)]

\* ParentWrites writing the root's leaf file also when the root has no urls
ParentWritesAlways(path) ==
    LET sitemap_name == LastSegment(XmlDocument_as_dict(heap, parent).loc)
    IN  IF sub_sitemaps # << >>
        THEN << FileWrite("write_index_sitemap", path, sitemap_name,
                    [i \in 1..Len(sub_sitemaps) |->
                        [loc |-> sub_sitemaps[i].loc, lastmod |-> sub_sitemaps[i].lastmod]]) >>
        ELSE << FileWrite("write_sub_sitemap", path, sitemap_name,
                          XmlDocument_as_dict(heap, parent).urls) >>

\* lines 623-647: the index when there are sub-sitemaps (an XmlDocument object is
\* true, so "and parent_sitemap" decides nothing), else the root's leaf file when
\* the root has urls
ParentWrites(path) ==
    LET sitemap_name == LastSegment(XmlDocument_as_dict(heap, parent).loc)
    IN  IF sub_sitemaps # << >>
        THEN LET sub_sitemaps_set ==
                     [i \in 1..Len(sub_sitemaps) |->
                         [loc |-> XmlDocument_as_dict(heap, sub_sitemaps[i]).loc,
                          lastmod |-> XmlDocument_as_dict(heap, sub_sitemaps[i]).lastmod]]
             IN  IF sub_sitemaps_set # << >>
                 THEN << FileWrite("write_index_sitemap", path, sitemap_name,
                                   sub_sitemaps_set) >>
                 ELSE << >>
        ELSE LET url_set == XmlDocument_as_dict(heap, parent).urls
             IN  IF url_set # << >>
                 THEN << FileWrite("write_sub_sitemap", path, sitemap_name, url_set) >>
                 ELSE << >>

\* Sitemap.write(path): the files are opened in order; open raises for a name that
\* is empty (path + "" is no file), and the call ends there
Sitemap_write(path) ==
    /\ LET intended == SubSitemapWrites(path) \o ParentWrites(path)
           unnamed == {k \in 1..Len(intended) : intended[k].file_name = EmptyStr}
       IN  IF unnamed = {}
           THEN writes' = intended /\ writeRaised' = FALSE
           ELSE /\ writes' = SubSeq(intended, 1,
                                    (CHOOSE k \in unnamed : \A j \in unnamed : k <= j) - 1)
                /\ writeRaised' = TRUE
    /\ call' = [op |-> "write", kind |-> "", arg |-> path]
    /\ UNCHANGED <<today, default_lastmod, heap, file_path, xsl_file, parent, sub_sitemaps>>
    /\ UNCHANGED <<searchVars, xmlVars>>

Next ==
    \/ Tick
    \/ \E kind \in {"XmlDocument", "Url", "dict", "other"} :
           \E args \in AppendArgs(kind) : Sitemap_append(kind, args)
    \/ \E path \in WritePaths : Sitemap_write(path)

-----------------------------------------------------------------------------
(* Sitemap.read and Sitemap.fetch *)

\* the most lists of images the heap holds: reading stops there
MaxLists == 6

Str_dot_xsl == <<".","x","s","l">>

\* sub in s
Contains(s, sub) ==
    \E k \in 0..(Len(s) - Len(sub)) : SubSeq(s, k + 1, k + Len(sub)) = sub

\* the line the writer puts out for the token at k, for the tokens that hold
\* character data: an instruction, a comment, or the text of an element
LineOf(text, k) ==
    CASE text[k].t = "pi" -> <<"<?", text[k].name, " ">> \o text[k].data \o <<"?>">>
      [] text[k].t = "comment" -> <<"<!--">> \o text[k].data \o <<"-->">>
      [] text[k].t = "text" ->
            <<"<", text[k - 1].name, ">">> \o text[k].data \o <<"</", text[k - 1].name, ">">>
      [] OTHER -> << >>

\* extract_xsl_file: the first line that holds ".xsl"; what stands between the last
\* href=" and the next "?> of it, which is the whole line when it has neither
extract_xsl_file(xml_as_text) ==
    LET xsl_item == {k \in 1..Len(xml_as_text) :
                        Contains(LineOf(xml_as_text, k), Str_dot_xsl)}
    IN  IF xsl_item = {} THEN EmptyStr
        ELSE LET k == CHOOSE i \in xsl_item : \A j \in xsl_item : i <= j
                 data == xml_as_text[k].data
             IN  IF /\ xml_as_text[k].t = "pi"
                    /\ Head(data) = "type=\"text/xsl\" href=\""
                    /\ data[Len(data)] = "\""
                 THEN SubSeq(data, 2, Len(data) - 1)
                 ELSE LineOf(xml_as_text, k)

\* line 190: sitemap.findNext("loc").text raises when findNext returns None
SubSitemapsRaise(xml_as_text) ==
    /\ FindAll(xml_as_text, "sitemapindex") # << >>
    /\ \E m \in Range(FindAll(xml_as_text, "sitemap")) : FindNext(xml_as_text, m, "loc") = 0

\* extract_sub_sitemaps with include_urls left False: the loc of an XmlDocument for
\* each <sitemap>, when the text holds a <sitemapindex>
extract_sub_sitemaps(xml_as_text) ==
    LET found == FindAll(xml_as_text, "sitemap")
    IN  IF FindAll(xml_as_text, "sitemapindex") # << >>
        THEN [n \in 1..Len(found) |->
                 TextOf(xml_as_text, FindNext(xml_as_text, found[n], "loc"))]
        ELSE << >>

\* the Url objects extract_url_set makes from what it extracted, each with a list
\* of images of its own, on heap h
RECURSIVE MakeUrls(_, _, _)
MakeUrls(made, h, extractedArgs) ==
    IF extractedArgs = << >> THEN [urls |-> made, heap |-> h]
    ELSE LET a == Head(extractedArgs)
             new == NewUrl(h, [loc |-> a.loc, lastmod |-> a.lastmod,
                               images_loc |-> a.images], UrlDefaultImages)
         IN  MakeUrls(Append(made, new.obj), new.heap, Tail(extractedArgs))

\* XmlDocument.add_from_text: the document and the heap after self.urls += ...
add_from_text(doc, h, xml_as_text) ==
    LET new == MakeUrls(<< >>, h, extract_url_set(xml_as_text))
    IN  [doc |-> [doc EXCEPT !.urls = @ \o new.urls], heap |-> new.heap]

\* no file at the path
NoFile == "none"

\* the texts of the files read and of the pages fetched: a sitemap of one url with
\* a stylesheet, an index of one sub-sitemap, an empty sitemap, and an index whose
\* <sitemap> has no <loc>
LeafText ==
    write_sub_sitemap(<<[loc |-> <<"a">>, lastmod |-> <<"2","0","2","2">>,
                         images |-> << <<"i">> >>]>>,
                      WebsiteName, <<"m",".","x","s","l">>, <<"t",".","x","m","l">>)
IndexText ==
    write_index_sitemap(<<[loc |-> <<"h","/","k",".","x","m","l">>,
                           lastmod |-> <<"2","0","2","1">>]>>,
                        WebsiteName, EmptyStr, <<"t",".","x","m","l">>)
EmptyText == write_sub_sitemap(<< >>, WebsiteName, EmptyStr, <<"t",".","x","m","l">>)
BrokenIndexText ==
    <<Open("sitemapindex"), Open("sitemap"), Close("sitemap"), Close("sitemapindex")>>

\* the files there may be at a path, by name, and the text of each
FileNames == {"leaf", "index", "empty", "broken"}
FileText(name) ==
    CASE name = "leaf" -> LeafText
      [] name = "index" -> IndexText
      [] name = "empty" -> EmptyText
      [] name = "broken" -> BrokenIndexText

\* the file_path arguments of read
ReadPaths == {EmptyStr, <<"t",".","x","m","l">>, <<"t","x","m","l">>, <<"t",".","g","z">>}

\* Sitemap.read(file_path), the file at the path holding content (or not being
\* there). call.kind tells how far the call came: "skipped" without opening a file,
\* "no file" when open raised, "raised" when an extraction raised, else "read".
Sitemap_read(path, name) ==
    LET file == IF path = EmptyStr THEN file_path ELSE path
        content == IF name = NoFile THEN << >> ELSE FileText(name)
        fresh == XmlDocument_init(file, Omitted)
        filled == add_from_text(fresh, heap, content)
        outcome == IF ~EndsWith(file, Str_xml) THEN "skipped"
                   ELSE IF name = NoFile THEN "no file"
                   ELSE IF ExtractRaises(content) \/ SubSitemapsRaise(content)
                   THEN "raised" ELSE "read"
    IN  /\ outcome \in {"read", "raised"} => Len(filled.heap) <= MaxLists
        /\ outcome = "read" =>
              Len(sub_sitemaps) + Len(extract_sub_sitemaps(content)) <= MaxChildren
        /\ CASE outcome \in {"skipped", "no file"} ->
                  UNCHANGED <<xsl_file, parent, heap, sub_sitemaps>>
             [] outcome = "raised" /\ ExtractRaises(content) ->
                  /\ xsl_file' = extract_xsl_file(content)
                  /\ parent' = fresh
                  /\ UNCHANGED <<heap, sub_sitemaps>>
             [] outcome = "raised" /\ ~ExtractRaises(content) ->
                  /\ xsl_file' = extract_xsl_file(content)
                  /\ parent' = filled.doc
                  /\ heap' = filled.heap
                  /\ UNCHANGED sub_sitemaps
             [] outcome = "read" ->
                  /\ xsl_file' = extract_xsl_file(content)
                  /\ parent' = filled.doc
                  /\ heap' = filled.heap
                  /\ sub_sitemaps' =
                        sub_sitemaps
                        \o [n \in 1..Len(extract_sub_sitemaps(content)) |->
                               XmlDocument_init(extract_sub_sitemaps(content)[n], Omitted)]
        /\ call' = [op |-> "read", kind |-> outcome,
                    arg |-> [file_path |-> path, file |-> name]]
        /\ writes' = << >>
        /\ writeRaised' = FALSE
        /\ UNCHANGED <<today, default_lastmod, file_path>>
        /\ UNCHANGED <<searchVars, xmlVars>>

\* response.status_code == 200
OkStatusCode == 200

Str_http == <<"h","t","t","p",":","/","/">>
Str_https == <<"h","t","t","p","s",":","/","/">>

\* get_corrected_url
get_corrected_url(url, fix_slash) ==
    LET with_scheme == IF ~StartsWith(url, Str_http) /\ ~StartsWith(url, Str_https)
                       THEN Str_http \o url ELSE url
    IN  IF ~EndsWith(with_scheme, fix_slash) THEN with_scheme \o fix_slash ELSE with_scheme

\* the addresses search_sitemap may hand to fetch, and the address of the
\* sub-sitemap that IndexText names, as XmlDocument.__init__ corrects it
AddressA == Str_http \o <<"a",".","x","m","l">>
AddressB == Str_http \o <<"b","x","m","l">>
AddressC == Str_http \o <<"c",".","g","z">>
AddressK == get_corrected_url(<<"h","/","k",".","x","m","l">>, EmptyStr)

\* what get_remote_content may return for an address, by name: the Mock of a
\* failed fetch, or a server's answer
PageNames(url) ==
    CASE url = AddressA -> {"404", "leaf", "index"}
      [] url = AddressB -> {"mock", "index"}
      [] OTHER -> {"leaf"}

Page(url, name) ==
    CASE name = "mock" -> mock_requests_object(url)
      [] name = "404" -> [kind |-> "Response", status_code |-> 404, url |-> url,
                          text |-> EmptyStr, links |-> << >>]
      [] name = "leaf" -> [kind |-> "Response", status_code |-> 200, url |-> url,
                           text |-> LeafText, links |-> << >>]
      [] name = "index" -> [kind |-> "Response", status_code |-> 200, url |-> url,
                            text |-> IndexText, links |-> << >>]

\* the web during one call of fetch: the page each address answers with
Webs ==
    {w \in [{AddressA, AddressB, AddressK} -> {"mock", "404", "leaf", "index"}] :
        \A u \in DOMAIN w : w[u] \in PageNames(u)}

WebGet(web, url) ==
    IF url \in DOMAIN web THEN Page(url, web[url]) ELSE mock_requests_object(url)

\* the lists search_sitemap may return
SearchResults ==
    { << >>, <<AddressC, AddressA>>, <<AddressA, AddressB>> }

\* the file_path arguments of fetch
FetchHints == {EmptyStr, AddressA, AddressB}

\* lines 443-447: what XmlDocument.__init__ does with the answer of its fetch
IncludeUrls(base, h, file_url, answer) ==
    IF answer.status_code # OkStatusCode
    THEN [doc |-> base, heap |-> h, fetched |-> <<file_url>>, raised |-> FALSE]
    ELSE IF ExtractRaises(answer.text)
    THEN [doc |-> base, heap |-> h, fetched |-> <<file_url>>, raised |-> TRUE]
    ELSE add_from_text(base, h, answer.text)
         @@ [fetched |-> <<file_url>>, raised |-> FALSE]

\* XmlDocument(loc, include_urls=include_urls) on heap h: the document, the heap,
\* the addresses fetched, and whether add_from_text raised
NewRemoteDocument(h, loc, include_urls, web) ==
    IF ~include_urls
    THEN [doc |-> XmlDocument_init(loc, Omitted), heap |-> h, fetched |-> << >>,
          raised |-> FALSE]
    ELSE IncludeUrls(XmlDocument_init(loc, Omitted), h,
                     get_corrected_url(loc, EmptyStr),
                     WebGet(web, get_corrected_url(loc, EmptyStr)))

\* one more document of extract_sub_sitemaps, made after those of acc
WithDocument(acc, one) ==
    [heap |-> one.heap, fetched |-> acc.fetched \o one.fetched, raised |-> one.raised,
     docs |-> Append(acc.docs, one.doc)]

\* extract_sub_sitemaps(text, include_urls): the documents made for the locs, in
\* order, threading the heap and the addresses fetched
RECURSIVE NewRemoteDocuments(_, _, _, _)
NewRemoteDocuments(acc, locs, include_urls, web) ==
    IF locs = << >> \/ acc.raised THEN acc
    ELSE NewRemoteDocuments(
             WithDocument(acc, NewRemoteDocument(acc.heap, Head(locs), include_urls, web)),
             Tail(locs), include_urls, web)

\* lines 561-565: the refetch of the candidate and what is taken from its answer
Refetched(st, sitemap, include_urls, web, root, answer) ==
    IF root.raised
    THEN [st EXCEPT !.fetched = @ \o root.fetched, !.raised = TRUE]
    ELSE IF answer.status_code >= ErrorStatusFloor
    THEN [st EXCEPT !.parent = root.doc, !.heap = root.heap,
                    !.fetched = @ \o root.fetched \o <<sitemap>>]
    ELSE IF SubSitemapsRaise(answer.text)
    THEN [st EXCEPT !.parent = root.doc, !.heap = root.heap,
                    !.xsl_file = extract_xsl_file(answer.text),
                    !.fetched = @ \o root.fetched \o <<sitemap>>,
                    !.raised = TRUE]
    ELSE LET children == NewRemoteDocuments(
                             [heap |-> root.heap, fetched |-> << >>, raised |-> FALSE,
                              docs |-> << >>],
                             extract_sub_sitemaps(answer.text), include_urls, web)
         IN  [st EXCEPT !.parent = root.doc, !.heap = children.heap,
                        !.xsl_file = extract_xsl_file(answer.text),
                        !.sub_sitemaps = IF children.raised THEN @
                                         ELSE @ \o children.docs,
                        !.fetched = @ \o root.fetched \o <<sitemap>>
                                      \o children.fetched,
                        !.raised = children.raised]

\* lines 556-565: the body of the loop of fetch for one candidate, on the state st
\* the candidates before it left
FetchCandidate(st, sitemap, include_urls, web) ==
    IF st.raised \/ ~EndsWith(sitemap, Str_xml) THEN st
    ELSE Refetched(st, sitemap, include_urls, web,
                   NewRemoteDocument(st.heap, sitemap, include_urls, web),
                   WebGet(web, sitemap))

RECURSIVE FetchCandidates(_, _, _, _)
FetchCandidates(st, sitemaps, include_urls, web) ==
    IF sitemaps = << >> THEN st
    ELSE FetchCandidates(FetchCandidate(st, Head(sitemaps), include_urls, web),
                         Tail(sitemaps), include_urls, web)

\* the state fetch leaves, and the record of the call
Fetched(hint, include_urls, searched, sitemaps, web, after) ==
    /\ Len(after.heap) <= MaxLists
    /\ Len(after.sub_sitemaps) <= MaxChildren
    /\ parent' = after.parent
    /\ sub_sitemaps' = after.sub_sitemaps
    /\ xsl_file' = after.xsl_file
    /\ heap' = after.heap
    /\ call' = [op |-> "fetch", kind |-> IF searched THEN "searched" ELSE "direct",
                arg |-> [file_path |-> hint, include_urls |-> include_urls,
                         sitemaps |-> sitemaps,
                         pages |-> [n \in 1..Len(sitemaps) |->
                                       IF sitemaps[n] \in DOMAIN web
                                          /\ EndsWith(sitemaps[n], Str_xml)
                                       THEN web[sitemaps[n]] ELSE "none"],
                         fetched |-> after.fetched, raised |-> after.raised]]
    /\ writes' = << >>
    /\ writeRaised' = FALSE
    /\ UNCHANGED <<today, default_lastmod, file_path>>
    /\ UNCHANGED <<searchVars, xmlVars>>

\* lines 551-553: the candidates of fetch
Candidates(hint, found) ==
    IF ~EndsWith(hint, Str_xml) THEN found ELSE <<hint>>

\* Sitemap.fetch(file_path, include_urls), search_sitemap returning found when it
\* is called, on the given web. call.kind tells whether search_sitemap was called;
\* call.arg holds the arguments, the candidates, the page each candidate that is
\* fetched answers with, the addresses fetched for the candidates, in order, and
\* whether the call raised.
Sitemap_fetch(hint, include_urls, found, web) ==
    /\ EndsWith(hint, Str_xml) => found = << >>
    /\ Fetched(hint, include_urls, ~EndsWith(hint, Str_xml), Candidates(hint, found), web,
               FetchCandidates([parent |-> parent, sub_sitemaps |-> sub_sitemaps,
                                xsl_file |-> xsl_file, heap |-> heap,
                                fetched |-> << >>, raised |-> FALSE],
                               Candidates(hint, found), include_urls, web))

NextRead ==
    \E path \in ReadPaths : \E name \in FileNames \cup {NoFile} :
        Sitemap_read(path, name)

NextFetch ==
    \E hint \in FetchHints : \E include_urls \in BOOLEAN :
        \E found \in SearchResults : \E web \in Webs :
            Sitemap_fetch(hint, include_urls, found, web)

-----------------------------------------------------------------------------
(* Url.add_images *)

\* the most images a list holds
MaxImages == 3

\* the images_loc arguments of add_images
AddImagesArgs == { Omitted, << <<"x">> >> }

\* url.add_images(images_loc) on the Url at place i of the root, which the caller
\* holds: += extends the list the Url refers to, in place
Url_add_images(i, images_loc) ==
    LET added == IF images_loc = Omitted THEN heap[AddImagesDefaultImages]
                 ELSE images_loc
    IN  /\ i \in 1..Len(parent.urls)
        /\ Len(heap[parent.urls[i].image_locations]) + Len(added) <= MaxImages
        /\ heap' = [heap EXCEPT ![parent.urls[i].image_locations] = @ \o added]
        /\ call' = [op |-> "add_images", kind |-> "",
                    arg |-> [index |-> i, images_loc |-> images_loc]]
        /\ writes' = << >>
        /\ writeRaised' = FALSE
        /\ UNCHANGED <<today, default_lastmod, file_path, xsl_file, parent, sub_sitemaps>>
        /\ UNCHANGED <<searchVars, xmlVars>>

\* Url objects and dicts appended to the root, and add_images on the Urls there
NextImages ==
    \/ \E kind \in {"Url", "dict"} :
           \E args \in AppendArgs(kind) : Sitemap_append(kind, args)
    \/ \E i \in 1..MaxEntries : \E images_loc \in AddImagesArgs :
           Url_add_images(i, images_loc)

-----------------------------------------------------------------------------
(* Specifications *)

\* a Sitemap object, its appends and its writes
Init == SitemapInit /\ SearchIdle /\ XmlIdle
Spec == Init /\ [][Next]_vars

\* one call of search_sitemap
InitSearch == SearchInit /\ XmlIdle /\ SitemapIdle
SpecSearch == InitSearch /\ [][SearchNext]_vars

\* write_sub_sitemap and extract_url_set on bounded arguments
\* a Sitemap object, the Urls appended to it and their add_images
SpecImages == Init /\ [][NextImages]_vars

\* a Sitemap object and its reads
SpecRead == Init /\ [][NextRead]_vars

\* a Sitemap object and its fetches
SpecFetch == Init /\ [][NextFetch]_vars

InitXml == XmlInit /\ SearchIdle /\ SitemapIdle
SpecXml == InitXml /\ [][XmlNext]_vars

-----------------------------------------------------------------------------
(* Claims about search_sitemap, under SpecSearch *)

C1_Qualifies(r) ==
    r.status_code < 400 /\ EndsWith(r.url, <<".","x","m","l">>)

C1_ProbeStep ==
    pc = "probe" =>
        /\ fetchLog' = Append(fetchLog, siteUrl \o SITEMAP_SEARCH_PATHS[idx])
        /\ IF C1_Qualifies(response')
           THEN pc' = "done" /\ result' = <<response'.url>>
           ELSE /\ result' = NoResult
                /\ IF idx < Len(SITEMAP_SEARCH_PATHS)
                   THEN pc' = "probe" /\ idx' = idx + 1
                   ELSE pc' = "robots"

C1_Returned ==
    /\ pc = "probe" => Len(fetchLog) = idx - 1
    /\ (pc = "done" /\ Len(fetchLog) <= Len(SITEMAP_SEARCH_PATHS)) =>
          /\ C1_Qualifies(response)
          /\ result = <<response.url>>
          /\ fetchLog = [i \in 1..idx |-> siteUrl \o SITEMAP_SEARCH_PATHS[i]]
          /\ passedOver \notin Range(result)

\* C1: search_sitemap fetches url + suffix for the suffixes of SITEMAP_SEARCH_PATHS
\* in list order; the first answer with status < 400 and a resolved address that
\* ends in ".xml" makes it return the list of that one address, with no fetch
\* after it (no later suffix, no robots.txt, no homepage); an answer with status
\* < 400 whose address does not end in ".xml" leaves the result unset and the probe
\* goes on to the next suffix.
C1_ProbeOrderShortCircuit == []C1_Returned /\ [][C1_ProbeStep]_vars

\* C1 happens: the search returned at a later suffix, on a redirected address,
\* after an earlier probe was answered with status < 400 but no ".xml" address.
C1_Witness ==
    /\ pc = "done"
    /\ Len(fetchLog) \in 2..Len(SITEMAP_SEARCH_PATHS)
    /\ result = <<response.url>>
    /\ response.url # fetchLog[Len(fetchLog)]
    /\ passedOver # NoUrl

\* C2: robots.txt is fetched only after every probe suffix failed to qualify; the
\* homepage is fetched only when the robots.txt fetch returned the failure
\* sentinel; a robots.txt fetched with success that holds no "Sitemap:" line ends
\* the search with the empty list, and the homepage is not fetched.
C2_TierGating ==
    /\ pc = "robots" =>
          /\ Len(fetchLog) = Len(SITEMAP_SEARCH_PATHS)
          /\ ~C1_Qualifies(response)
    /\ pc = "home" =>
          /\ fetchLog[Len(fetchLog)] = siteUrl \o Str_robots_txt
          /\ response.kind = "Mock"
    /\ (/\ Len(fetchLog) = Len(SITEMAP_SEARCH_PATHS) + 1
        /\ response.kind = "Response"
        /\ response.status_code < 400
        /\ \A line \in Range(SplitChar(response.text, "\n")) :
              ~StartsWith(line, Str_Sitemap_colon)) =>
          pc = "done" /\ result = << >>

-----------------------------------------------------------------------------
(* Claims about the Sitemap object, under Spec *)

\* the files that exist after the writes, and the write that gave a file its content
FilesWritten == {writes[k].file : k \in 1..Len(writes)}
LastWriteTo(file) ==
    writes[CHOOSE k \in 1..Len(writes) :
               writes[k].file = file /\ \A j \in (k + 1)..Len(writes) : writes[j].file # file]

\* the entries of a document as write hands them to write_sub_sitemap
EntriesOf(doc) ==
    [i \in 1..Len(doc.urls) |->
        [loc |-> doc.urls[i].loc, lastmod |-> doc.urls[i].lastmod,
         images |-> heap[doc.urls[i].image_locations]]]

IsLeafOf(w, doc) ==
    /\ w.fn = "write_sub_sitemap"
    /\ w.file_name = LastSegment(doc.loc)
    /\ w.items = EntriesOf(doc)

IsIndexOfChildren(w) ==
    /\ w.fn = "write_index_sitemap"
    /\ w.file_name = LastSegment(parent.loc)
    /\ w.items = [i \in 1..Len(sub_sitemaps) |->
                     [loc |-> sub_sitemaps[i].loc, lastmod |-> sub_sitemaps[i].lastmod]]

\* C3: write on a Sitemap with exactly one sub-sitemap that has exactly one url, and
\* a root without urls, leaves exactly two distinct files: the leaf sitemap of the
\* sub-sitemap, named by the last path segment of its loc, and the index, named by
\* the last path segment of the root's loc, which lists the sub-sitemap. (Stated for
\* the calls that end without an I/O error.)
C3_TwoOutputFiles ==
    (/\ call.op = "write"
     /\ ~writeRaised
     /\ Len(sub_sitemaps) = 1
     /\ Len(sub_sitemaps[1].urls) = 1
     /\ parent.urls = << >>) =>
        /\ Cardinality(FilesWritten) = 2
        /\ \E leaf \in FilesWritten : IsLeafOf(LastWriteTo(leaf), sub_sitemaps[1])
        /\ \E index \in FilesWritten : IsIndexOfChildren(LastWriteTo(index))

C4_Expected ==
    LET children == SelectSeq(sub_sitemaps, LAMBDA doc : Len(doc.urls) > 0)
        leaves == [i \in 1..Len(children) |->
                      [fn |-> "write_sub_sitemap",
                       file_name |-> LastSegment(children[i].loc),
                       items |-> EntriesOf(children[i])]]
        root == [fn |-> IF Len(sub_sitemaps) > 0 THEN "write_index_sitemap"
                        ELSE "write_sub_sitemap",
                 file_name |-> LastSegment(parent.loc),
                 items |-> IF Len(sub_sitemaps) > 0
                           THEN [i \in 1..Len(sub_sitemaps) |->
                                    [loc |-> sub_sitemaps[i].loc,
                                     lastmod |-> sub_sitemaps[i].lastmod]]
                           ELSE EntriesOf(parent)]
    IN  leaves \o (IF Len(sub_sitemaps) > 0 \/ Len(parent.urls) > 0
                   THEN <<root>> ELSE << >>)

C5_NothingToWrite ==
    [][(call'.op = "write" /\ sub_sitemaps = << >> /\ parent.urls = << >>) =>
          /\ writes' = << >>
          /\ ~writeRaised'
          /\ parent' = parent
          /\ sub_sitemaps' = sub_sitemaps
          /\ xsl_file' = xsl_file]_vars

\* C5 happens: write ran on a Sitemap that holds nothing (its root has no file name).
C5_Witness ==
    /\ call.op = "write"
    /\ sub_sitemaps = << >>
    /\ parent.urls = << >>
    /\ parent.loc = EmptyStr
    /\ writes = << >>

\* what an append may not touch: the lists of the heap that exist, and xsl_file
C6_Frame ==
    /\ xsl_file' = xsl_file
    /\ Len(heap') >= Len(heap)
    /\ \A i \in 1..Len(heap) : heap'[i] = heap[i]
    /\ parent'.loc = parent.loc
    /\ parent'.lastmod = parent.lastmod

C6_AppendStep ==
    call'.op = "append" =>
        /\ C6_Frame
        /\ CASE call'.kind = "XmlDocument" ->
                  /\ Len(sub_sitemaps') = Len(sub_sitemaps) + 1
                  /\ SubSeq(sub_sitemaps', 1, Len(sub_sitemaps)) = sub_sitemaps
                  /\ sub_sitemaps'[Len(sub_sitemaps')].loc = call'.arg.loc
                  /\ Len(sub_sitemaps'[Len(sub_sitemaps')].urls) = Len(call'.arg.urls)
                  /\ parent'.urls = parent.urls
             [] call'.kind = "Url" ->
                  /\ Len(parent'.urls) = Len(parent.urls) + 1
                  /\ SubSeq(parent'.urls, 1, Len(parent.urls)) = parent.urls
                  /\ parent'.urls[Len(parent'.urls)].loc = call'.arg.loc
                  /\ sub_sitemaps' = sub_sitemaps
             [] call'.kind = "dict" ->
                  /\ sub_sitemaps' = sub_sitemaps
                  /\ IF call'.arg.loc # << >>
                     THEN /\ Len(parent'.urls) = Len(parent.urls) + 1
                          /\ SubSeq(parent'.urls, 1, Len(parent.urls)) = parent.urls
                          /\ LET new == parent'.urls[Len(parent'.urls)]
                             IN  /\ new.loc = call'.arg.loc
                                 /\ new.lastmod = call'.arg.lastmod
                                 /\ heap'[new.image_locations] = call'.arg.images_loc
                     ELSE parent'.urls = parent.urls
             [] OTHER ->
                  /\ parent'.urls = parent.urls
                  /\ sub_sitemaps' = sub_sitemaps
                  /\ heap' = heap

\* C6: append acts by the kind of its argument and touches only the matching part:
\* an XmlDocument goes to the end of sub_sitemaps and the root's urls stay; a Url
\* goes to the end of the root's urls and sub_sitemaps stays; a dict adds one Url
\* made of its loc, lastmod and images_loc to the end of the root's urls when loc is
\* not empty, adds nothing when it is, and sub_sitemaps stays; anything else changes
\* nothing.
C6_AppendDispatch == [][C6_AppendStep]_vars

\* C6 happens: a dict with a loc was appended to a root that held a Url, beside a
\* sub-sitemap.
C6_Witness ==
    /\ call.op = "append"
    /\ call.kind = "dict"
    /\ call.arg.loc # EmptyStr
    /\ Len(parent.urls) = 2
    /\ Len(sub_sitemaps) >= 1

C7_AppendStep ==
    (/\ call'.op = "append"
     /\ call'.kind \in {"Url", "dict"}
     /\ call'.arg.loc # << >>) =>
        /\ Len(parent'.urls) = Len(parent.urls) + 1
        /\ \A i \in 1..Len(parent.urls) :
              /\ parent'.urls[i].loc = parent.urls[i].loc
              /\ parent'.urls[i].lastmod = parent.urls[i].lastmod
              /\ heap'[parent'.urls[i].image_locations] = heap[parent.urls[i].image_locations]
        /\ parent'.urls[Len(parent'.urls)].loc = call'.arg.loc
        /\ call'.arg.lastmod # Omitted =>
              parent'.urls[Len(parent'.urls)].lastmod = call'.arg.lastmod
        /\ call'.arg.images_loc # Omitted =>
              heap'[parent'.urls[Len(parent'.urls)].image_locations] = call'.arg.images_loc

\* C7: a new Sitemap has no urls in its root, and every append of a Url or of a
\* dict whose loc is not empty makes the root's urls one longer: the urls there
\* stay as they are and in their order, the new one comes last, also when a url
\* with the same loc is there already. So n such appends leave n urls in append
\* order.
C7_AppendKeepsAll ==
    [](call.op = "Sitemap" => parent.urls = << >>) /\ [][C7_AppendStep]_vars

\* C7 happens: the root holds two urls with the same loc, appended one after the other.
C7_Witness ==
    /\ call.op = "append"
    /\ Len(parent.urls) = 2
    /\ parent.urls[1].loc = parent.urls[2].loc
    /\ parent.urls[1].loc # EmptyStr
    /\ parent.urls[1].lastmod # parent.urls[2].lastmod

\* C8: a Url or an XmlDocument made without a lastmod (Url(...), XmlDocument(...),
\* add_url(...)) has the date of the day it is made as its lastmod, also when days
\* have passed since the module was loaded.
C8_DefaultLastmodIsToday ==
    /\ call.op = "Sitemap" => parent.lastmod = StrfTime(today)
    /\ (call.op = "append" /\ call.kind = "Url" /\ call.arg.lastmod = Omitted) =>
          parent.urls[Len(parent.urls)].lastmod = StrfTime(today)
    /\ (call.op = "append" /\ call.kind = "XmlDocument") =>
          LET doc == sub_sitemaps[Len(sub_sitemaps)]
          IN  /\ call.arg.lastmod = Omitted => doc.lastmod = StrfTime(today)
              /\ \A i \in 1..Len(call.arg.urls) :
                    call.arg.urls[i].lastmod = Omitted =>
                        doc.urls[i].lastmod = StrfTime(today)

-----------------------------------------------------------------------------
(* Claims about write_sub_sitemap and extract_url_set, under SpecXml *)

\* C9: for every non-empty url_set, extract_url_set of the text write_sub_sitemap
\* wrote returns as many entries, the i-th with the loc, the lastmod and the images
\* (in order) of the i-th entry written; the extraction does not raise.
C9_RoundTrip ==
    (xmlUrlSet # << >> /\ xmlPc \notin {"entries", "written"}) =>
        /\ xmlPc = "roundtrip"
        /\ Len(extracted) = Len(xmlUrlSet)
        /\ \A i \in 1..Len(xmlUrlSet) :
              /\ extracted[i].loc = xmlUrlSet[i].loc
              /\ extracted[i].lastmod = xmlUrlSet[i].lastmod
              /\ extracted[i].images = xmlUrlSet[i].images

\* C9 happens: two entries went round, the first with an empty lastmod and no
\* image, the second with characters the writer escapes and two images.
C9_Witness ==
    /\ xmlPc = "roundtrip"
    /\ Len(xmlUrlSet) = 2
    /\ xmlUrlSet[1].lastmod = EmptyStr /\ xmlUrlSet[1].images = << >>
    /\ xmlUrlSet[2].loc = <<"b","&","c">> /\ Len(xmlUrlSet[2].images) = 2
    /\ xmlUrlSet[2].lastmod # EmptyStr
    /\ Len(extracted) = 2

\* the text of the first descendant of that name of the element at i, "" without one
C10_OwnText(text, i, name) ==
    LET own == FindAllIn(text, i, name)
    IN  IF own = << >> THEN EmptyStr ELSE TextOf(text, own[1])

\* C10: extract_url_set returns one entry per <url> element, in document order,
\* each field read from the descendants of that <url> only: without a <loc> (or a
\* <lastmod>) the field is "", whatever a later <url> holds; no text makes it raise.
C10_OwnDescendantsOnly ==
    /\ xmlPc # "raised"
    /\ xmlPc = "extracted" =>
          LET urls == FindAll(xmlText, "url")
          IN  /\ Len(extracted) = Len(urls)
              /\ \A n \in 1..Len(urls) :
                    /\ extracted[n].loc = C10_OwnText(xmlText, urls[n], "loc")
                    /\ extracted[n].lastmod = C10_OwnText(xmlText, urls[n], "lastmod")

-----------------------------------------------------------------------------
(* Claims about Sitemap.read, under SpecRead *)

\* the path a read works on: its argument, or self.file_path when that is empty
C11_Path == IF call'.arg.file_path = << >> THEN file_path ELSE call'.arg.file_path

C11_ReadStep ==
    call'.op = "read" =>
        IF ~EndsWith(C11_Path, <<".","x","m","l">>)
        THEN /\ call'.kind = "skipped"
             /\ parent' = parent
             /\ sub_sitemaps' = sub_sitemaps
             /\ xsl_file' = xsl_file
        ELSE call'.kind = "read" =>
                LET text == FileText(call'.arg.file)
                    children == extract_sub_sitemaps(text)
                IN  /\ parent'.loc = C11_Path
                    /\ [i \in 1..Len(parent'.urls) |-> Url_as_dict(heap', parent'.urls[i])]
                          = extract_url_set(text)
                    /\ Len(sub_sitemaps') = Len(sub_sitemaps) + Len(children)
                    /\ SubSeq(sub_sitemaps', 1, Len(sub_sitemaps)) = sub_sitemaps
                    /\ \A n \in 1..Len(children) :
                          sub_sitemaps'[Len(sub_sitemaps) + n].loc = children[n]

\* C11: read works only on a path that ends in ".xml". For a path that does not,
\* it opens no file and leaves the root, the sub-sitemaps and xsl_file as they
\* were; for one that does, and a file that is read through, the root is a new
\* XmlDocument of that path holding the urls extracted from the file, and the
\* sub-sitemaps are those before followed by the ones extracted. (The path is the
\* argument, or self.file_path when the argument is empty.)
C11_ReadOnlyDotXml == [][C11_ReadStep]_vars

-----------------------------------------------------------------------------
(* Claims about Url.add_images, under SpecImages *)

C12_AddImagesStep ==
    call'.op = "add_images" =>
        LET i == call'.arg.index
            added == IF call'.arg.images_loc = Omitted THEN << >>
                     ELSE call'.arg.images_loc
        IN  /\ Url_as_dict(heap', parent'.urls[i]).images
                  = Url_as_dict(heap, parent.urls[i]).images \o added
            /\ \A j \in 1..Len(parent.urls) :
                  j # i => Url_as_dict(heap', parent'.urls[j]).images
                               = Url_as_dict(heap, parent.urls[j]).images
            /\ \A list \in (AddUrlDefaultImages + 1)..Len(heap) : heap'[list] = heap[list]

\* C12: no list of images is shared. add_images on a Url leaves it with the images
\* it had followed by the added ones, in order; the images of every other Url, made
\* with images_loc or without, and every list a caller passed as images_loc (the
\* lists of the heap after those of the defaults) stay as they were.
C12_ImagesNotShared == [][C12_AddImagesStep]_vars

-----------------------------------------------------------------------------
(* Claims about Sitemap.fetch, under SpecFetch *)

C13_DotXml(address) == EndsWith(address, <<".","x","m","l">>)

\* the locs of the sub-sitemaps taken from the candidates from place n on: those of
\* each candidate that ends in ".xml" and was answered with a status below 400
RECURSIVE C13_Children(_, _)
C13_Children(arg, n) ==
    IF n > Len(arg.sitemaps) THEN << >>
    ELSE (IF /\ C13_DotXml(arg.sitemaps[n])
             /\ arg.pages[n] # "none"
             /\ Page(arg.sitemaps[n], arg.pages[n]).status_code < 400
          THEN extract_sub_sitemaps(Page(arg.sitemaps[n], arg.pages[n]).text)
          ELSE << >>)
         \o C13_Children(arg, n + 1)

C13_FetchStep ==
    call'.op = "fetch" =>
        LET arg == call'.arg
            dotxml == {n \in 1..Len(arg.sitemaps) : C13_DotXml(arg.sitemaps[n])}
        IN  /\ (call'.kind = "searched") <=> ~C13_DotXml(arg.file_path)
            /\ \A n \in 1..Len(arg.sitemaps) :
                  ~C13_DotXml(arg.sitemaps[n]) =>
                      /\ arg.sitemaps[n] \notin Range(arg.fetched)
                      /\ get_corrected_url(arg.sitemaps[n], << >>) \notin Range(arg.fetched)
            /\ dotxml = {} =>
                  /\ parent' = parent
                  /\ sub_sitemaps' = sub_sitemaps
                  /\ xsl_file' = xsl_file
            /\ (dotxml # {} /\ ~arg.raised) =>
                  /\ parent'.loc
                        = arg.sitemaps[CHOOSE n \in dotxml : \A k \in dotxml : k <= n]
                  /\ Len(sub_sitemaps') = Len(sub_sitemaps) + Len(C13_Children(arg, 1))
                  /\ SubSeq(sub_sitemaps', 1, Len(sub_sitemaps)) = sub_sitemaps
                  /\ \A n \in 1..Len(C13_Children(arg, 1)) :
                        sub_sitemaps'[Len(sub_sitemaps) + n].loc = C13_Children(arg, 1)[n]

\* C13: fetch calls search_sitemap exactly when its file_path argument does not end
\* in ".xml". A candidate that does not end in ".xml" is not fetched and changes
\* nothing, so without a candidate that ends in ".xml" the root, the sub-sitemaps
\* and xsl_file stay as they were. With such candidates the root becomes the
\* XmlDocument of the last of them, and the sub-sitemaps are those before followed
\* by the ones extracted from each such candidate whose refetch was answered with
\* a status below 400, in the order of the candidates.
C13_FetchOnlyDotXml == [][C13_FetchStep]_vars

=============================================================================
